---- MODULE Spec2Model ----
(***************************************************************************)
(* Model of examples/sign1.c: the command-line driver that signs every     *)
(* Signature template of an XML document (main, RegisterID, do_sign_node,  *)
(* sign_file) and the namespace-list parser register_namespaces.           *)
(*                                                                         *)
(* Spec   : one run of main, over every small document, with every         *)
(*          library call free to fail.                                     *)
(* SpecNs : register_namespaces over every short binding list.             *)
(***************************************************************************)
EXTENDS Integers, Sequences, FiniteSets

VARIABLES
    pc,         \* position of the run (a label of main, sign_file, do_sign_node)
    argc,       \* main's argument count
    mainRet,    \* main's return value: {} while running, {v} once it returned v
    libs,       \* per library: "none", "init" (init succeeded) or "shut"
    badShut,    \* libraries whose shutdown ran while they were not "init"
    doc,        \* sign_file's doc: [null, tree], tree the nodes in document order
    certsNode,  \* sign_file's certsNode (0 = NULL)
    certNode,   \* sign_file's certNode (0 = NULL)
    ids,        \* the document's ID table: id value -> node (0 = not registered)
    regs,       \* history: every RegisterID call, [node, ret, known] in call order;
                \* known: the node's id value was already in the table
    xpathCtx,   \* TRUE iff sign_file's xpathCtx is not NULL
    xpathObj,   \* TRUE iff sign_file's xpathObj is not NULL
    nodes,      \* xpathObj->nodesetval as a sequence of nodes (<<>> when no object)
    anchor,     \* sign_file's node: the anchor Signature node (0 = NULL)
    i,          \* sign_file's loop index (0-based, as in the code)
    res,        \* sign_file's res
    sfRes,      \* sign_file's return value: {} until it returns, then {v}
    failure,    \* the first step of the run that failed ("none" if none did)
    dsig,       \* do_sign_node's dsigCtx: [ctx, key, named, node] (ctx 0 = NULL)
    dsRet,      \* do_sign_node's ret
    tmpl,       \* per node: template state Loaded / KeyBound / Signed / Failed
    signCalls,  \* history: every do_sign_node call, <<node>> in call order
    signSteps,  \* history: every xmlSecDSigCtxSign call, [node, ctx, key, named]
    acquired,   \* per resource: number of acquisitions
    released,   \* per resource: number of releases
    stdout,     \* what was written to stdout, in order
    stderr,     \* what was written to stderr, in order
    nsList,     \* register_namespaces: the binding list (sequence of characters)
    nsEnv,      \* register_namespaces: which library call fails ("none" if none)
    nsRet,      \* register_namespaces: return value: {} until it returns, then {v}
    nsReg       \* register_namespaces: the <<prefix, href>> pairs registered

vars == <<pc, argc, mainRet, libs, badShut, doc, certsNode, certNode, ids, regs,
          xpathCtx, xpathObj, nodes, anchor, i, res, sfRes, failure, dsig, dsRet,
          tmpl, signCalls, signSteps,
          acquired, released, stdout, stderr, nsList, nsEnv, nsRet, nsReg>>

mainVars == <<argc, mainRet, libs, badShut>>
docVars == <<doc, certsNode, certNode, ids, regs, xpathCtx, xpathObj, nodes,
            anchor, i, res, tmpl>>
dsVars == <<dsig, dsRet, signCalls, signSteps>>
nsVars == <<nsList, nsEnv, nsRet, nsReg>>

----------------------------------------------------------------------------
(* Bounds of the model *)

MaxNodes == 4       \* nodes of a document, the root included
MaxArgc == 4        \* argc ranges over 1..MaxArgc
MaxLen == 5         \* characters of a binding list

----------------------------------------------------------------------------
(* Documents *)

CertNs == "http://vde.com/fnn/stb/certificates/1.4.0"
DSigNs == "http://www.w3.org/2000/09/xmldsig#"

NoDoc == [null |-> TRUE, tree |-> <<>>]

\* The element kinds a document is built from.  The last one carries the
\* certificate name in the signature namespace: a name match without a
\* namespace match.
NodeKinds ==
    { [type |-> "ELEMENT", name |-> "certificates", ns |-> CertNs],
      [type |-> "ELEMENT", name |-> "certificate",  ns |-> CertNs],
      [type |-> "ELEMENT", name |-> "Signature",    ns |-> DSigNs],
      [type |-> "ELEMENT", name |-> "certificate",  ns |-> DSigNs] }

RECURSIVE Ancestors(_, _)
\* n and its ancestors, given the parent function par (the root's parent is 0)
Ancestors(par, n) == IF n = 0 THEN {} ELSE {n} \cup Ancestors(par, par[n])

\* A parent function numbers the nodes in document (pre-)order iff each node's
\* parent is the previous node or one of its ancestors.
PreOrder(par) ==
    /\ par[1] = 0
    /\ \A n \in DOMAIN par : n > 1 => par[n] \in Ancestors(par, n - 1)

Docs ==
    UNION { { [n \in 1..len |-> [type |-> kind[n].type, name |-> kind[n].name,
                                 ns |-> kind[n].ns, parent |-> par[n]]] :
                kind \in [1..len -> NodeKinds],
                par \in { p \in [1..len -> 0..(len - 1)] : PreOrder(p) } } :
            len \in 1..MaxNodes }

ParentOf(d) == [n \in DOMAIN d |-> d[n].parent]

\* the nodes of the subtree rooted at r
Subtree(d, r) == { n \in DOMAIN d : r \in Ancestors(ParentOf(d), n) }

Matches(d, n, name, ns) ==
    d[n].type = "ELEMENT" /\ d[n].name = name /\ d[n].ns = ns

\* xmlSecFindNode(start, name, ns): the first node in document order of the
\* subtree of start that is an element with that name and namespace; 0 if none.
xmlSecFindNode(d, start, name, ns) ==
    LET hits == { n \in Subtree(d, start) : Matches(d, n, name, ns) }
    IN  IF hits = {} THEN 0 ELSE CHOOSE n \in hits : \A m \in hits : n <= m

RECURSIVE SeqOfSet(_)
\* a set of nodes as a sequence in document order
SeqOfSet(S) ==
    IF S = {} THEN <<>>
    ELSE LET m == CHOOSE x \in S : \A y \in S : x <= y
         IN  <<m>> \o SeqOfSet(S \ {m})

\* The node set of "//sig:Signature" with sig bound to DSigNs: the Signature
\* elements of the document, in document order.
XPathSignatures(d) ==
    SeqOfSet({ n \in DOMAIN d : Matches(d, n, "Signature", DSigNs) })

----------------------------------------------------------------------------
(* register_namespaces *)

NsChars == {"a", "=", " "}

\* every binding list of at most MaxLen characters
NsLists == UNION { [1..len -> NsChars] : len \in 0..MaxLen }

\* sign_file's nsList, "sig=http://www.w3.org/2000/09/xmldsig#"
SigNsList ==
    <<"s","i","g","=","h","t","t","p",":","/","/","w","w","w",".","w","3",".",
      "o","r","g","/","2","0","0","0","/","0","9","/","x","m","l","d","s","i",
      "g","#">>

\* which call inside register_namespaces fails, if any
NsEnvs == {"none", "xmlStrdup", "xmlXPathRegisterNs"}

\* xmlStrchr(s + from, c): the first position >= from holding c; 0 (NULL) if none
xmlStrchr(s, from, c) ==
    LET hits == { k \in from..Len(s) : s[k] = c }
    IN  IF hits = {} THEN 0 ELSE CHOOSE k \in hits : \A m \in hits : k <= m

RECURSIVE SkipSpaces(_, _)
\* while((*next) == ' ') next++;
SkipSpaces(s, next) ==
    IF next <= Len(s) /\ s[next] = " " THEN SkipSpaces(s, next + 1) ELSE next

\* xmlXPathRegisterNs(ctx, prefix, href): refuses an empty prefix, and fails
\* when the library cannot allocate; any other prefix is stored.
xmlXPathRegisterNs(prefix, env) ==
    IF prefix = <<>> \/ env = "xmlXPathRegisterNs" THEN -1 ELSE 0

RECURSIVE NsLoop(_, _, _, _)
\* The while(next != NULL) loop, from position next (0 = NULL) with the pairs
\* reg registered so far: [ret, reg].
NsLoop(s, next, reg, env) ==
    IF next = 0 THEN [ret |-> 0, reg |-> reg]
    ELSE
      LET start == SkipSpaces(s, next) IN
      IF start > Len(s) THEN [ret |-> 0, reg |-> reg]
      ELSE
        LET eq == xmlStrchr(s, start, "=") IN
        IF eq = 0 THEN [ret |-> -1, reg |-> reg]
        ELSE
          LET prefix == SubSeq(s, start, eq - 1)
              sp == xmlStrchr(s, eq + 1, " ")
              href == IF sp = 0 THEN SubSeq(s, eq + 1, Len(s))
                                ELSE SubSeq(s, eq + 1, sp - 1)
              after == IF sp = 0 THEN 0 ELSE sp + 1
          IN  IF xmlXPathRegisterNs(prefix, env) # 0
              THEN [ret |-> -1, reg |-> reg]
              ELSE NsLoop(s, after, Append(reg, <<prefix, href>>), env)

\* register_namespaces(xpathCtx, nsList): [ret, reg]
register_namespaces(s, env) ==
    IF env = "xmlStrdup" THEN [ret |-> -1, reg |-> <<>>]
    ELSE NsLoop(s, 1, <<>>, env)

----------------------------------------------------------------------------
(* Initial state of a run of main *)

Libs == {"xmlsec", "cryptoApp", "crypto"}
Resources == {"doc", "xpathCtx", "xpathObj", "dsigCtx", "key"}
IdValues == {"a", "b"}

\* what xmlHasProp / attr->children give for the "id" attribute of a node
AttrValues == {"absent", "empty"} \cup IdValues

NoDSig == [ctx |-> 0, key |-> 0, named |-> FALSE, node |-> 0]

InitRun ==
    /\ mainRet = {}
    /\ libs = [l \in Libs |-> "none"]
    /\ badShut = {}
    /\ doc = NoDoc
    /\ certsNode = 0
    /\ certNode = 0
    /\ ids = [v \in IdValues |-> 0]
    /\ regs = <<>>
    /\ xpathCtx = FALSE
    /\ xpathObj = FALSE
    /\ nodes = <<>>
    /\ anchor = 0
    /\ i = 0
    /\ res = -1
    /\ sfRes = {}
    /\ failure = "none"
    /\ dsig = NoDSig
    /\ dsRet = -1
    /\ tmpl = <<>>
    /\ signCalls = <<>>
    /\ signSteps = <<>>
    /\ acquired = [r \in Resources |-> 0]
    /\ released = [r \in Resources |-> 0]
    /\ stdout = <<>>
    /\ stderr = <<>>
    /\ nsRet = {}
    /\ nsReg = <<>>

Init ==
    /\ pc = "main"
    /\ argc \in 1..MaxArgc
    /\ nsList = SigNsList
    /\ nsEnv = "none"
    /\ InitRun

Acquire(r) == acquired' = [acquired EXCEPT ![r] = @ + 1]
Release(R) == released' = [r \in Resources |-> released[r] + (IF r \in R THEN 1 ELSE 0)]
Err(msgs) == stderr' = stderr \o msgs
Fails(step) == failure' = IF failure = "none" THEN step ELSE failure

----------------------------------------------------------------------------
(* main *)

\* if(argc != 3) { ...; return(1); }
MainArgs ==
    /\ pc = "main"
    /\ IF argc # 3
       THEN /\ Err(<<"wrong number of arguments", "usage">>)
            /\ Fails("args")
            /\ mainRet' = {1}
            /\ pc' = "exit"
       ELSE /\ pc' = "xmlSecInit"
            /\ UNCHANGED <<stderr, failure, mainRet>>
    /\ UNCHANGED <<argc, libs, badShut, docVars, sfRes, dsVars, acquired,
                   released, stdout, nsVars>>

\* One initialisation call of main at label at: on failure print msg and
\* return(-1); on success mark lib (if the call initialises one) and go on.
MainInit(at, lib, msg, next) ==
    /\ pc = at
    /\ \E ok \in BOOLEAN :
         IF ok
         THEN /\ libs' = IF lib \in Libs THEN [libs EXCEPT ![lib] = "init"] ELSE libs
              /\ pc' = next
              /\ UNCHANGED <<stderr, failure, mainRet>>
         ELSE /\ Err(<<msg>>)
              /\ Fails(at)
              /\ mainRet' = {-1}
              /\ pc' = "exit"
              /\ UNCHANGED libs
    /\ UNCHANGED <<argc, badShut, docVars, sfRes, dsVars, acquired, released,
                   stdout, nsVars>>

MainXmlSecInit ==
    MainInit("xmlSecInit", "xmlsec", "xmlsec initialization failed", "xmlSecCheckVersion")

MainCheckVersion ==
    MainInit("xmlSecCheckVersion", "-", "loaded xmlsec library version is not compatible",
             "xmlSecCryptoAppInit")

MainCryptoAppInit ==
    MainInit("xmlSecCryptoAppInit", "cryptoApp", "crypto initialization failed",
             "xmlSecCryptoInit")

MainCryptoInit ==
    MainInit("xmlSecCryptoInit", "crypto", "xmlsec-crypto initialization failed",
             "sf_parse")

\* MainAfterSignFile with the return value not looked at
MainAfterSignFileIgnoresFailure(r) ==
    /\ pc' = "xmlSecCryptoShutdown"
    /\ UNCHANGED mainRet

\* what main does with sign_file's return value: return(-1) at once if it is
\* negative, otherwise go on to the shutdown calls
MainAfterSignFile(r) ==
    IF r < 0
    THEN /\ mainRet' = {-1}
         /\ pc' = "exit"
    ELSE /\ pc' = "xmlSecCryptoShutdown"
         /\ UNCHANGED mainRet

\* if(sign_file(argv[1], argv[2]) < 0) { return(-1); }
MainSignFileReturned ==
    /\ pc = "sf_returned"
    /\ \E r \in sfRes : MainAfterSignFile(r)
    /\ UNCHANGED <<argc, libs, badShut, docVars, sfRes, failure, dsVars, acquired,
                   released, stdout, stderr, nsVars>>

\* One shutdown call of main.
MainShutdown(at, lib, next) ==
    /\ pc = at
    /\ libs' = [libs EXCEPT ![lib] = "shut"]
    /\ badShut' = IF libs[lib] = "init" THEN badShut ELSE badShut \cup {lib}
    /\ pc' = next
    /\ UNCHANGED <<argc, mainRet, docVars, sfRes, failure, dsVars, acquired,
                   released, stdout, stderr, nsVars>>

MainCryptoShutdown ==
    MainShutdown("xmlSecCryptoShutdown", "crypto", "xmlSecCryptoAppShutdown")

MainCryptoAppShutdown ==
    MainShutdown("xmlSecCryptoAppShutdown", "cryptoApp", "xmlSecShutdown")

MainXmlSecShutdown ==
    MainShutdown("xmlSecShutdown", "xmlsec", "return0")

\* return(0);
MainReturn ==
    /\ pc = "return0"
    /\ mainRet' = {0}
    /\ pc' = "exit"
    /\ UNCHANGED <<argc, libs, badShut, docVars, sfRes, failure, dsVars, acquired,
                   released, stdout, stderr, nsVars>>

----------------------------------------------------------------------------
(* RegisterID *)

\* xmlAddID(NULL, doc, name, attr): adds the id to the document's table; an
\* id that is already there stays as it is and the call returns NULL.
xmlAddID(table, v, node) ==
    IF table[v] # 0 THEN table ELSE [table EXCEPT ![v] = node]

\* RegisterID(node, "id") where the node's id attribute is v and
\* xmlNodeListGetString succeeds iff strOk: [ret, ids, err].  The return value
\* of xmlAddID is not looked at.
RegisterID(table, node, v, strOk) ==
    IF v \in {"absent", "empty"}
    THEN [ret |-> -1, ids |-> table, err |-> <<"failed to get id attribute">>]
    ELSE IF ~strOk
    THEN [ret |-> -1, ids |-> table, err |-> <<"failed to get id attribute value">>]
    ELSE [ret |-> 0, ids |-> xmlAddID(table, v, node), err |-> <<>>]

----------------------------------------------------------------------------
(* sign_file *)

Root == 1

\* doc = xmlReadFile(...); if ((doc == NULL) || (root == NULL)) goto done;
SfParse ==
    /\ pc = "sf_parse"
    /\ \/ \* xmlReadFile returns NULL
          /\ Err(<<"unable to parse file">>)
          /\ Fails("parse")
          /\ pc' = "sf_done"
          /\ UNCHANGED <<doc, tmpl, acquired>>
       \/ \* a document without a root element
          /\ doc' = [null |-> FALSE, tree |-> <<>>]
          /\ Acquire("doc")
          /\ Err(<<"unable to parse file">>)
          /\ Fails("parse")
          /\ pc' = "sf_done"
          /\ UNCHANGED tmpl
       \/ \E d \in Docs :
            /\ doc' = [null |-> FALSE, tree |-> d]
            /\ tmpl' = [n \in DOMAIN d |-> "Loaded"]
            /\ Acquire("doc")
            /\ pc' = "sf_findCerts"
            /\ UNCHANGED <<stderr, failure>>
    /\ UNCHANGED <<mainVars, certsNode, certNode, ids, regs, xpathCtx,
                   xpathObj, nodes, anchor, i, res, sfRes, dsVars, released, stdout, nsVars>>

\* certsNode = xmlSecFindNode(root, "certificates", ns); if NULL goto done;
SfFindCerts ==
    /\ pc = "sf_findCerts"
    /\ certsNode' = xmlSecFindNode(doc.tree, Root, "certificates", CertNs)
    /\ IF certsNode' = 0
       THEN /\ Err(<<"unable to find node certificates">>)
            /\ Fails("findCerts")
            /\ pc' = "sf_done"
       ELSE /\ pc' = "sf_regCerts"
            /\ UNCHANGED <<stderr, failure>>
    /\ UNCHANGED <<mainVars, doc, certNode, ids, regs, xpathCtx, xpathObj,
                   nodes, anchor, i, res, tmpl, sfRes, dsVars, acquired, released, stdout,
                   nsVars>>

\* the node sign_file looks the certificate up from
CertSearchStart(certs) == Root

\* certNode = xmlSecFindNode(xmlDocGetRootElement(doc), "certificate", ns);
SfFindCert ==
    /\ pc = "sf_findCert"
    /\ certNode' = xmlSecFindNode(doc.tree, CertSearchStart(certsNode),
                                  "certificate", CertNs)
    /\ IF certNode' = 0
       THEN /\ Err(<<"unable to find node certificates">>)
            /\ Fails("findCert")
            /\ pc' = "sf_done"
       ELSE /\ pc' = "sf_regCert"
            /\ UNCHANGED <<stderr, failure>>
    /\ UNCHANGED <<mainVars, doc, certsNode, ids, regs, xpathCtx, xpathObj,
                   nodes, anchor, i, res, tmpl, sfRes, dsVars, acquired, released, stdout,
                   nsVars>>

\* AfterRegisterID with the failure of RegisterID ignored
AfterRegisterIDIgnoresFailure(r, next) == next

\* where sign_file goes after a RegisterID call that returned r
AfterRegisterID(r, next) == IF r < 0 THEN "sf_done" ELSE next

\* if (RegisterID(node, "id") < 0) { ...; goto done; }
SfRegister(at, node, msg, next) ==
    /\ pc = at
    /\ \E v \in AttrValues, strOk \in BOOLEAN :
         LET r == RegisterID(ids, node, v, strOk) IN
         /\ ids' = r.ids
         /\ regs' = Append(regs, [node |-> node, ret |-> r.ret,
                                  known |-> v \in IdValues /\ ids[v] # 0])
         /\ pc' = AfterRegisterID(r.ret, next)
         /\ IF r.ret < 0
            THEN /\ Err(r.err \o <<msg>>)
                 /\ Fails(at)
            ELSE UNCHANGED <<stderr, failure>>
    /\ UNCHANGED <<mainVars, doc, certsNode, certNode, xpathCtx, xpathObj, nodes, anchor,
                   i, res, tmpl, sfRes, dsVars, acquired, released, stdout, nsVars>>

SfRegCerts ==
    SfRegister("sf_regCerts", certsNode, "unable to register id for certsNode",
               "sf_findCert")

SfRegCert ==
    SfRegister("sf_regCert", certNode, "unable to register id for certNode",
               "sf_newCtx")

\* xpathCtx = xmlXPathNewContext(doc); if NULL goto done;
SfNewCtx ==
    /\ pc = "sf_newCtx"
    /\ \E ok \in BOOLEAN :
         IF ok
         THEN /\ xpathCtx' = TRUE
              /\ Acquire("xpathCtx")
              /\ pc' = "sf_regNs"
              /\ UNCHANGED <<stderr, failure>>
         ELSE /\ Err(<<"unable to create new XPath context">>)
              /\ Fails("newCtx")
              /\ pc' = "sf_done"
              /\ UNCHANGED <<xpathCtx, acquired>>
    /\ UNCHANGED <<mainVars, doc, certsNode, certNode, ids, regs, xpathObj,
                   nodes, anchor, i, res, tmpl, sfRes, dsVars, released, stdout, nsVars>>

\* EarlyReturnReleases with xmlFreeDoc(doc) left out
EarlyReturnLeaksDoc == {"xpathCtx"}

\* what the two early "return(-1)" paths release before returning
EarlyReturnReleases == {"xpathCtx", "doc"}

\* if(register_namespaces(xpathCtx, nsList) < 0) { free ctx, doc; return(-1); }
SfRegNs ==
    /\ pc = "sf_regNs"
    /\ \E env \in NsEnvs :
         LET r == register_namespaces(nsList, env) IN
         /\ nsReg' = r.reg
         /\ IF r.ret < 0
            THEN /\ Err(<<"failed to register namespaces list">>)
                 /\ Fails("regNs")
                 /\ Release(EarlyReturnReleases)
                 /\ sfRes' = {-1}
                 /\ pc' = "sf_returned"
            ELSE /\ pc' = "sf_eval"
                 /\ UNCHANGED <<stderr, failure, released, sfRes>>
    /\ UNCHANGED <<mainVars, docVars, dsVars, acquired, stdout, nsList, nsEnv, nsRet>>

\* xpathObj = xmlXPathEvalExpression("//sig:Signature", xpathCtx);
\* if NULL { free ctx, doc; return(-1); }
SfEval ==
    /\ pc = "sf_eval"
    /\ \E ok \in BOOLEAN :
         IF ok
         THEN /\ xpathObj' = TRUE
              /\ nodes' = XPathSignatures(doc.tree)
              /\ Acquire("xpathObj")
              /\ pc' = "sf_print"
              /\ UNCHANGED <<stderr, failure, released, sfRes>>
         ELSE /\ Err(<<"unable to evaluate xpath expression">>)
              /\ Fails("eval")
              /\ Release(EarlyReturnReleases)
              /\ sfRes' = {-1}
              /\ pc' = "sf_returned"
              /\ UNCHANGED <<xpathObj, nodes, acquired>>
    /\ UNCHANGED <<mainVars, doc, certsNode, certNode, ids, regs, xpathCtx,
                   anchor, i, res, tmpl, dsVars, stdout, nsVars>>

\* the stream print_xpath_nodes is given in sign_file
PrintNodesStream == "stdout"

\* print_xpath_nodes(xpathObj->nodesetval, stdout);
SfPrint ==
    /\ pc = "sf_print"
    /\ IF PrintNodesStream = "stdout"
       THEN stdout' = Append(stdout, "xpath nodes") /\ UNCHANGED stderr
       ELSE stderr' = Append(stderr, "xpath nodes") /\ UNCHANGED stdout
    /\ pc' = "sf_anchor"
    /\ UNCHANGED <<mainVars, docVars, sfRes, failure, dsVars, acquired, released,
                   nsVars>>

\* node = xmlSecFindNode(root, "Signature", dsig ns); if NULL goto done;
SfAnchor ==
    /\ pc = "sf_anchor"
    /\ anchor' = xmlSecFindNode(doc.tree, Root, "Signature", DSigNs)
    /\ IF anchor' = 0
       THEN /\ Err(<<"start node not found">>)
            /\ Fails("anchor")
            /\ pc' = "sf_done"
            /\ UNCHANGED i
       ELSE /\ i' = 0
            /\ pc' = "sf_loop"
            /\ UNCHANGED <<stderr, failure>>
    /\ UNCHANGED <<mainVars, doc, certsNode, certNode, ids, regs, xpathCtx,
                   xpathObj, nodes, res, tmpl, sfRes, dsVars, acquired, released,
                   stdout, nsVars>>

\* for(i = 0; i < size; ++i): an element node is handed to do_sign_node, any
\* other node is passed over.
SfLoop ==
    /\ pc = "sf_loop"
    /\ i < Len(nodes)
    /\ LET cur == nodes[i + 1] IN
       IF doc.tree[cur].type = "ELEMENT"
       THEN /\ signCalls' = Append(signCalls, cur)
            /\ dsRet' = -1
            /\ dsig' = [NoDSig EXCEPT !.node = cur]
            /\ pc' = "ds_create"
            /\ UNCHANGED i
       ELSE /\ i' = i + 1
            /\ UNCHANGED <<pc, signCalls, dsRet, dsig>>
    /\ UNCHANGED <<mainVars, doc, certsNode, certNode, ids, regs, xpathCtx,
                   xpathObj, nodes, anchor, res, tmpl, sfRes, failure, signSteps, acquired,
                   released, stdout, stderr, nsVars>>

\* AfterSignNode with the failure of do_sign_node ignored
AfterSignNodeIgnoresFailure(r) == "sf_loop"

\* where sign_file goes after a do_sign_node call that returned r
AfterSignNode(r) == IF r < 0 THEN "sf_done" ELSE "sf_loop"

\* if (do_sign_node(cur, key_file) < 0) { ...; goto done; }
SfSigned ==
    /\ pc = "sf_signed"
    /\ pc' = AfterSignNode(dsRet)
    /\ i' = IF pc' = "sf_loop" THEN i + 1 ELSE i
    /\ IF dsRet < 0
       THEN Err(<<"failed to sign node">>) /\ Fails("sign")
       ELSE UNCHANGED <<stderr, failure>>
    /\ UNCHANGED <<mainVars, doc, certsNode, certNode, ids, regs, xpathCtx,
                   xpathObj, nodes, anchor, res, tmpl, sfRes, dsVars, acquired, released,
                   stdout, nsVars>>

\* xmlDocDump(stdout, doc); res = 0;
SfDump ==
    /\ pc = "sf_loop"
    /\ i >= Len(nodes)
    /\ stdout' = Append(stdout, "document")
    /\ res' = 0
    /\ pc' = "sf_done"
    /\ UNCHANGED <<mainVars, doc, certsNode, certNode, ids, regs, xpathCtx,
                   xpathObj, nodes, anchor, i, tmpl, sfRes, failure, dsVars, acquired,
                   released, stderr, nsVars>>

\* what the code after "done:" releases, given which pointers are not NULL
DoneReleases(obj, ctx, d) ==
    (IF obj THEN {"xpathObj"} ELSE {}) \cup
    (IF ctx THEN {"xpathCtx"} ELSE {}) \cup
    (IF ~d.null THEN {"doc"} ELSE {})

\* done: free xpathObj, xpathCtx, doc where not NULL; return(res);
SfDone ==
    /\ pc = "sf_done"
    /\ Release(DoneReleases(xpathObj, xpathCtx, doc))
    /\ sfRes' = {res}
    /\ pc' = "sf_returned"
    /\ UNCHANGED <<mainVars, docVars, failure, dsVars, acquired, stdout, stderr,
                   nsVars>>

----------------------------------------------------------------------------
(* do_sign_node *)

SetTmpl(st) == tmpl' = [tmpl EXCEPT ![dsig.node] = st]

\* dsigCtx = xmlSecDSigCtxCreate(NULL); if NULL goto done;
DsCreate ==
    /\ pc = "ds_create"
    /\ \E ok \in BOOLEAN :
         IF ok
         THEN /\ dsig' = [dsig EXCEPT !.ctx = acquired["dsigCtx"] + 1]
              /\ Acquire("dsigCtx")
              /\ pc' = "ds_loadKey"
              /\ UNCHANGED <<stderr, failure, tmpl>>
         ELSE /\ Err(<<"failed to create signature context">>)
              /\ Fails("dsigCreate")
              /\ SetTmpl("Failed")
              /\ pc' = "ds_done"
              /\ UNCHANGED <<dsig, acquired>>
    /\ UNCHANGED <<mainVars, doc, certsNode, certNode, ids, regs, xpathCtx,
                   xpathObj, nodes, anchor, i, res, sfRes, dsRet, signCalls, signSteps,
                   released, stdout, nsVars>>

\* dsigCtx->signKey = xmlSecCryptoAppKeyLoadEx(...); if NULL goto done;
DsLoadKey ==
    /\ pc = "ds_loadKey"
    /\ \E ok \in BOOLEAN :
         IF ok
         THEN /\ dsig' = [dsig EXCEPT !.key = acquired["key"] + 1]
              /\ Acquire("key")
              /\ pc' = "ds_setName"
              /\ UNCHANGED <<stderr, failure, tmpl>>
         ELSE /\ Err(<<"failed to load private pem key">>)
              /\ Fails("keyLoad")
              /\ SetTmpl("Failed")
              /\ pc' = "ds_done"
              /\ UNCHANGED <<dsig, acquired>>
    /\ UNCHANGED <<mainVars, doc, certsNode, certNode, ids, regs, xpathCtx,
                   xpathObj, nodes, anchor, i, res, sfRes, dsRet, signCalls, signSteps,
                   released, stdout, nsVars>>

\* if(xmlSecKeySetName(dsigCtx->signKey, key_file) < 0) goto done;
DsSetName ==
    /\ pc = "ds_setName"
    /\ \E ok \in BOOLEAN :
         IF ok
         THEN /\ dsig' = [dsig EXCEPT !.named = TRUE]
              /\ SetTmpl("KeyBound")
              /\ pc' = "ds_sign"
              /\ UNCHANGED <<stderr, failure>>
         ELSE /\ Err(<<"failed to set key name">>)
              /\ Fails("keyName")
              /\ SetTmpl("Failed")
              /\ pc' = "ds_done"
              /\ UNCHANGED dsig
    /\ UNCHANGED <<mainVars, doc, certsNode, certNode, ids, regs, xpathCtx,
                   xpathObj, nodes, anchor, i, res, sfRes, dsRet, signCalls, signSteps,
                   acquired, released, stdout, nsVars>>

\* if (xmlSecDSigCtxSign(dsigCtx, node) < 0) goto done;
DsSign ==
    /\ pc = "ds_sign"
    /\ signSteps' = Append(signSteps, dsig)
    /\ \E ok \in BOOLEAN :
         IF ok
         THEN /\ SetTmpl("Signed")
              /\ pc' = "ds_dump"
              /\ UNCHANGED <<stderr, failure>>
         ELSE /\ Err(<<"signature failed">>)
              /\ Fails("dsigSign")
              /\ SetTmpl("Failed")
              /\ pc' = "ds_done"
    /\ UNCHANGED <<mainVars, doc, certsNode, certNode, ids, regs, xpathCtx,
                   xpathObj, nodes, anchor, i, res, sfRes, dsig, dsRet, signCalls, acquired,
                   released, stdout, nsVars>>

\* the stream xmlSecDSigCtxDebugDump is given in do_sign_node
DebugDumpStream == "stdout"

\* ret = 0; xmlSecDSigCtxDebugDump(dsigCtx, stdout);
DsDump ==
    /\ pc = "ds_dump"
    /\ dsRet' = 0
    /\ IF DebugDumpStream = "stdout"
       THEN stdout' = Append(stdout, "signature context") /\ UNCHANGED stderr
       ELSE stderr' = Append(stderr, "signature context") /\ UNCHANGED stdout
    /\ pc' = "ds_done"
    /\ UNCHANGED <<mainVars, docVars, sfRes, failure, dsig, signCalls, signSteps,
                   acquired, released, nsVars>>

\* xmlSecDSigCtxDestroy(dsigCtx): releases the context and the key bound to it
xmlSecDSigCtxDestroy(c) ==
    {"dsigCtx"} \cup (IF c.key # 0 THEN {"key"} ELSE {})

\* DsDoneReleases with the context never destroyed
DsDoneKeepsContext(c) == {}

\* what the code after "done:" releases: if(dsigCtx != NULL) destroy it
DsDoneReleases(c) == IF c.ctx # 0 THEN xmlSecDSigCtxDestroy(c) ELSE {}

\* done: if(dsigCtx != NULL) xmlSecDSigCtxDestroy(dsigCtx); return ret;
DsDone ==
    /\ pc = "ds_done"
    /\ Release(DsDoneReleases(dsig))
    /\ dsig' = NoDSig
    /\ pc' = "sf_signed"
    /\ UNCHANGED <<mainVars, docVars, sfRes, failure, dsRet, signCalls, signSteps,
                   acquired, stdout, stderr, nsVars>>

----------------------------------------------------------------------------
(* A run of main *)

Next ==
    \/ MainArgs
    \/ MainXmlSecInit
    \/ MainCheckVersion
    \/ MainCryptoAppInit
    \/ MainCryptoInit
    \/ SfParse
    \/ SfFindCerts
    \/ SfRegCerts
    \/ SfFindCert
    \/ SfRegCert
    \/ SfNewCtx
    \/ SfRegNs
    \/ SfEval
    \/ SfPrint
    \/ SfAnchor
    \/ SfLoop
    \/ SfSigned
    \/ SfDump
    \/ SfDone
    \/ DsCreate
    \/ DsLoadKey
    \/ DsSetName
    \/ DsSign
    \/ DsDump
    \/ DsDone
    \/ MainSignFileReturned
    \/ MainCryptoShutdown
    \/ MainCryptoAppShutdown
    \/ MainXmlSecShutdown
    \/ MainReturn

Spec == Init /\ [][Next]_vars

----------------------------------------------------------------------------
(* register_namespaces on its own, over every short binding list *)

InitNs ==
    /\ pc = "ns_call"
    /\ argc = 3
    /\ nsList \in NsLists
    /\ nsEnv \in NsEnvs
    /\ InitRun

\* one call of register_namespaces(xpathCtx, nsList)
NsCall ==
    /\ pc = "ns_call"
    /\ LET r == register_namespaces(nsList, nsEnv) IN
       /\ nsRet' = {r.ret}
       /\ nsReg' = r.reg
    /\ pc' = "ns_returned"
    /\ UNCHANGED <<mainVars, docVars, sfRes, failure, dsVars, acquired, released,
                   stdout, stderr, nsList, nsEnv>>

NextNs == NsCall

SpecNs == InitNs /\ [][NextNs]_vars

----------------------------------------------------------------------------
(* Properties *)

Range(f) == { f[k] : k \in DOMAIN f }
IsPrefix(a, b) == Len(a) <= Len(b) /\ SubSeq(b, 1, Len(a)) = a
Live(r) == acquired[r] - released[r]
Returned == mainRet # {}
SignFileReturned == sfRes # {}
InDoSignNode ==
    pc \in {"ds_create", "ds_loadKey", "ds_setName", "ds_sign", "ds_dump", "ds_done"}

\* the element-typed nodes of the query result, in result order
ElementNodes == SelectSeq(nodes, LAMBDA n : doc.tree[n].type = "ELEMENT")

\* C1: sign_file writes the document iff every step before the dump succeeded,
\* and it returns 0 iff it wrote it and a negative value otherwise; a node
\* whose do_sign_node failed is the last node handed to do_sign_node.
C1_DumpIffAllSucceeded ==
    /\ "document" \in Range(stdout) => failure = "none" /\ res = 0
    /\ \A k \in DOMAIN signCalls :
         tmpl[signCalls[k]] = "Failed" =>
           /\ k = Len(signCalls)
           /\ "document" \notin Range(stdout)
           /\ InDoSignNode \/ failure \in {"dsigCreate", "keyLoad", "keyName", "dsigSign"}
    /\ SignFileReturned =>
         /\ (failure = "none") <=> ("document" \in Range(stdout))
         /\ (failure = "none") <=> (sfRes = {0})
         /\ \A r \in sfRes : r <= 0

\* C1 witness: a run over two Signature nodes in which the first do_sign_node
\* failed: the second node was never signed and sign_file returned -1.
C1_Witness ==
    /\ sfRes = {-1}
    /\ failure = "dsigSign"
    /\ Len(nodes) >= 2
    /\ Len(signCalls) = 1

\* C2: no resource is released more often than it was acquired, at most one
\* of each is held at a time, and when do_sign_node has returned (context, key)
\* and when sign_file has returned (all of them) nothing acquired is still held.
C2_ReleasedExactlyOnce ==
    /\ \A r \in Resources : Live(r) \in {0, 1}
    /\ ~InDoSignNode => Live("dsigCtx") = 0 /\ Live("key") = 0
    /\ SignFileReturned => \A r \in Resources : Live(r) = 0

\* C2 witness: sign_file left through an early return(-1), and through done
\* after signing, having held a document, a context, a result and a key.
C2_Witness ==
    /\ SignFileReturned
    /\ failure \in {"regNs", "eval"}
    /\ acquired["doc"] = 1
    /\ acquired["xpathCtx"] = 1
    /\ released["doc"] = 1

\* C3: stdout holds nothing but the serialized document, and nothing at all
\* once sign_file has failed.
C3_StdoutOnlyDocument ==
    /\ \A k \in DOMAIN stdout : stdout[k] = "document"
    /\ (SignFileReturned /\ sfRes # {0}) => stdout = <<>>

\* C4: main returns 0 exactly when argc is 3 and no initialisation failed and
\* sign_file returned 0; it returns 1 for a wrong argument count and -1 for
\* every other failure.
C4_MainReturn ==
    Returned =>
      /\ (mainRet = {0}) <=> (argc = 3 /\ failure = "none" /\ sfRes = {0})
      /\ (mainRet = {0}) <=> (argc = 3 /\ \A l \in Libs : libs[l] # "none"
                                        /\ sfRes = {0})
      /\ argc # 3 => mainRet = {1}
      /\ (argc = 3 /\ mainRet # {0}) => mainRet = {-1}

\* C4 witness: main returned -1 because sign_file failed.
C4_Witness ==
    /\ mainRet = {-1}
    /\ sfRes = {-1}
    /\ \A l \in Libs : libs[l] = "init"

\* C5: the node whose id RegisterID registered as the certificate node is the
\* first certificate node of the subtree of the certificates container.
C5_CertInsideContainer ==
    \A k \in DOMAIN regs :
      (k = 2 /\ regs[k].ret = 0) =>
        /\ regs[k].node \in Subtree(doc.tree, certsNode)
        /\ regs[k].node = xmlSecFindNode(doc.tree, certsNode, "certificate", CertNs)

\* C6: RegisterID never returns 0 for an id value that is already in the
\* document's table, so no signing follows a duplicate registration.
C6_DuplicateRejected ==
    \A k \in DOMAIN regs :
      regs[k].known => regs[k].ret < 0 /\ signCalls = <<>>

\* a space-separated entry of the list s that holds no '='
HasEntryWithoutEq(s) ==
    \E a \in 1..Len(s) : \E b \in a..Len(s) :
      /\ a = 1 \/ s[a - 1] = " "
      /\ b = Len(s) \/ s[b + 1] = " "
      /\ \A k \in a..b : s[k] \notin {" ", "="}

\* the positions at which a space-separated entry of the list s starts
EntryStarts(s) == { a \in 1..Len(s) : s[a] # " " /\ (a = 1 \/ s[a - 1] = " ") }

\* C7: register_namespaces returns a negative value for every list with an
\* entry whose prefix is not followed by '=', and 0 only for a list in which
\* every entry holds a '=' and was registered.
C7_MalformedRejected ==
    \A r \in nsRet :
      /\ HasEntryWithoutEq(nsList) => r < 0
      /\ r = 0 => /\ ~HasEntryWithoutEq(nsList)
                  /\ Len(nsReg) = Cardinality(EntryStarts(nsList))

\* C8: a shutdown call runs only on a library whose init succeeded, and when
\* main has returned from a run in which every init call succeeded (whatever
\* sign_file returned) every library has been shut down.
C8_ShutdownBoundsMain ==
    /\ badShut = {}
    /\ (Returned /\ SignFileReturned) => \A l \in Libs : libs[l] = "shut"

C10_TemplateStates ==
    /\ \A k \in DOMAIN signSteps :
         /\ signSteps[k].ctx # 0 /\ signSteps[k].key # 0 /\ signSteps[k].named
         /\ signSteps[k].node = signCalls[k]
         /\ \A m \in DOMAIN signSteps :
              m # k => /\ signSteps[m].ctx # signSteps[k].ctx
                       /\ signSteps[m].key # signSteps[k].key
                       /\ signSteps[m].node # signSteps[k].node
    /\ Len(signSteps) <= Len(signCalls)
    /\ \A n \in DOMAIN tmpl :
         /\ tmpl[n] \in {"Loaded", "KeyBound", "Signed", "Failed"}
         /\ tmpl[n] = "Signed" => \E k \in DOMAIN signSteps : signSteps[k].node = n
         /\ tmpl[n] = "KeyBound" =>
              pc = "ds_sign" /\ dsig.node = n /\ dsig.key # 0 /\ dsig.named
         /\ (tmpl[n] = "Failed" /\ failure \in {"dsigCreate", "keyLoad", "keyName"}) =>
              \A k \in DOMAIN signSteps : signSteps[k].node # n
         /\ tmpl[n] # "Loaded" => n \in Range(signCalls)
    /\ Live("dsigCtx") <= 1 /\ Live("key") <= Live("dsigCtx")
    /\ ~InDoSignNode => Live("dsigCtx") = 0 /\ Live("key") = 0 /\ dsig = NoDSig

\* C10 witness: two templates were signed, each by its own context and key.
C10_Witness ==
    /\ Len(signSteps) >= 2
    /\ tmpl[signSteps[1].node] = "Signed"
    /\ tmpl[signSteps[2].node] = "Signed"
    /\ ~InDoSignNode

====
